---- MODULE Spec2Model ----
(***************************************************************************)
(* InfiniteInt: arbitrary-precision signed decimal integers stored as a    *)
(* DEIntQueue of digits (most significant digit at the front) plus the     *)
(* flag isNegative.  The operators below follow src/InfiniteInt.cpp        *)
(* statement by statement; the loops of the source are recursive           *)
(* operators over the iterator position.                                   *)
(***************************************************************************)
EXTENDS Integers, Sequences, FiniteSets, TLC

VARIABLES lhs, rhs, res, cmp, op, num, conv, stream, input,
          queue, qiter, refq, qres

vars == <<lhs, rhs, res, cmp, op, num, conv, stream, input,
          queue, qiter, refq, qres>>
\* a DEIntQueue object, an iterator on it, the sequence it should hold, and the
\* outcome of the last call on it
queueVars == <<queue, qiter, refq, qres>>

(***************************************************************************)
(* Bounds of the model.                                                    *)
(***************************************************************************)
\* operands of the arithmetic harness: every integer in -MaxOperand..MaxOperand
MaxOperand == 12
\* longest text handed to operator>>
MaxText == 4
\* native integers tried around 0, INT_MIN and INT_MAX
MaxNative == 30
\* most entries a DEIntQueue holds
MaxQueue == 3

(***************************************************************************)
(* The native int of the build: 32-bit two's complement (<climits>).       *)
(***************************************************************************)
INT_MAX == 2147483647
INT_MIN == (-2147483647) - 1

\* C++ integer division and remainder by 10 truncate toward zero
CDiv10(x) == IF x >= 0 \/ x % 10 = 0 THEN x \div 10 ELSE (x \div 10) + 1
CMod10(x) == IF x >= 0 \/ x % 10 = 0 THEN x % 10 ELSE (x % 10) - 10
\* abs(int); abs(INT_MIN) is not representable and is never evaluated below
abs(x) == IF x < 0 THEN 0 - x ELSE x

(***************************************************************************)
(* DEIntQueue: the queue is its front-to-back sequence of entries.  An     *)
(* iterator is a position: 0 is "cur is null" (end()), k in 1..size is the *)
(* k-th node from the head.                                                *)
(***************************************************************************)
EmptyQueue == <<>>
pushFront(q, newItem) == <<newItem>> \o q
pushBack(q, newItem) == Append(q, newItem)
popFront(q) == Tail(q)
front(q) == Head(q)
numEntries(q) == Len(q)
clear(q) == <<>>
end == 0
begin(q) == IF Len(q) = 0 THEN end ELSE 1
last(q) == IF Len(q) = 0 THEN end ELSE Len(q)
\* operator++ / operator-- on an iterator that references a node
iterNext(q, cur) == IF cur = Len(q) THEN end ELSE cur + 1
iterPrev(q, cur) == cur - 1
deref(q, cur) == q[cur]

(***************************************************************************)
(* InfiniteInt construction.                                               *)
(***************************************************************************)
MkInfiniteInt(d, neg) == [digits |-> d, isNegative |-> neg]

\* InfiniteInt(): a single digit 0, not negative
InfiniteIntDefault == MkInfiniteInt(pushFront(EmptyQueue, 0), FALSE)

\* do { digits.pushFront(num % 10); num /= 10; } while (num != 0);
RECURSIVE pushDigits(_, _)
pushDigits(digits, n) ==
    LET pushed == pushFront(digits, CMod10(n))
        rest == CDiv10(n)
    IN  IF rest # 0 THEN pushDigits(pushed, rest) ELSE pushed

\* InfiniteInt(int num)
InfiniteInt(n) ==
    LET isMin == (n = INT_MIN)
        digits0 == IF isMin THEN pushFront(EmptyQueue, abs(CMod10(n))) ELSE EmptyQueue
        num1 == IF isMin THEN CDiv10(n) ELSE n
        negative == num1 < 0
        num2 == IF negative THEN abs(num1) ELSE num1
    IN  MkInfiniteInt(pushDigits(digits0, num2), negative)

numDigits(x) == numEntries(x.digits)

(***************************************************************************)
(* Comparison.                                                             *)
(***************************************************************************)
\* the digit loop of operator==: FALSE at the first difference
RECURSIVE equalsLoop(_, _, _, _)
equalsLoop(L, R, lhsCur, rhsCur) ==
    IF lhsCur # end /\ rhsCur # end
    THEN IF deref(L, lhsCur) # deref(R, rhsCur)
         THEN FALSE
         ELSE equalsLoop(L, R, iterNext(L, lhsCur), iterNext(R, rhsCur))
    ELSE TRUE

\* operator==
Equals(x, y) ==
    IF (numDigits(x) # numDigits(y)) \/ (x.isNegative # y.isNegative)
    THEN FALSE
    ELSE equalsLoop(x.digits, y.digits, begin(x.digits), begin(y.digits))

\* operator!=
NotEquals(x, y) == ~Equals(x, y)

\* operator< without the comparison of the digit counts
LessIgnoringLength(x, y) ==
    IF ~x.isNegative /\ y.isNegative THEN FALSE
    ELSE IF x.isNegative /\ ~y.isNegative THEN TRUE
    ELSE LET lessDigits[i \in 1..(Len(x.digits) + 1)] ==
                 IF i > Len(x.digits) \/ i > Len(y.digits) THEN FALSE
                 ELSE IF x.digits[i] = y.digits[i] THEN lessDigits[i + 1]
                 ELSE (x.digits[i] < y.digits[i]) # x.isNegative
         IN  lessDigits[1]

\* the digit loop of operator<, highest digit first
RECURSIVE lessLoop(_, _, _, _, _)
lessLoop(L, R, lhsCur, rhsCur, negative) ==
    IF lhsCur # end /\ rhsCur # end
    THEN IF (~negative /\ deref(L, lhsCur) > deref(R, rhsCur))
            \/ (negative /\ deref(L, lhsCur) < deref(R, rhsCur))
         THEN FALSE
         ELSE IF (~negative /\ deref(L, lhsCur) < deref(R, rhsCur))
                 \/ (negative /\ deref(L, lhsCur) > deref(R, rhsCur))
              THEN TRUE
              ELSE lessLoop(L, R, iterNext(L, lhsCur), iterNext(R, rhsCur), negative)
    ELSE FALSE

\* operator<
Less(x, y) ==
    IF ~x.isNegative /\ y.isNegative THEN FALSE
    ELSE IF x.isNegative /\ ~y.isNegative THEN TRUE
    ELSE IF numDigits(x) # numDigits(y)
         THEN IF x.isNegative
              THEN numDigits(x) > numDigits(y)
              ELSE numDigits(x) < numDigits(y)
         ELSE lessLoop(x.digits, y.digits, begin(x.digits), begin(y.digits),
                       x.isNegative)

(***************************************************************************)
(* Unsigned helpers add, subtractAbs, subtract.                            *)
(***************************************************************************)
\* add that forgets the carry once rhs has run out of digits
RECURSIVE addLoopDropsCarry(_, _, _, _, _, _)
addLoopDropsCarry(L, R, lhsCur, rhsCur, carry, result) ==
    IF lhsCur # end /\ rhsCur # end
    THEN LET partialSum == deref(L, lhsCur) + deref(R, rhsCur) + carry
         IN  addLoopDropsCarry(L, R, iterPrev(L, lhsCur), iterPrev(R, rhsCur),
                               partialSum \div 10, pushFront(result, partialSum % 10))
    ELSE IF lhsCur # end
    THEN addLoopDropsCarry(L, R, iterPrev(L, lhsCur), rhsCur, 0,
                           pushFront(result, deref(L, lhsCur)))
    ELSE IF rhsCur # end
    THEN LET partialSum == deref(R, rhsCur) + carry
         IN  addLoopDropsCarry(L, R, lhsCur, iterPrev(R, rhsCur),
                               partialSum \div 10, pushFront(result, partialSum % 10))
    ELSE IF carry > 0 THEN pushFront(result, carry) ELSE result

\* the three while loops of add and its final carry; result grows at the front
RECURSIVE addLoop(_, _, _, _, _, _)
addLoop(L, R, lhsCur, rhsCur, carry, result) ==
    IF lhsCur # end /\ rhsCur # end
    THEN LET partialSum == deref(L, lhsCur) + deref(R, rhsCur) + carry
         IN  addLoop(L, R, iterPrev(L, lhsCur), iterPrev(R, rhsCur),
                     partialSum \div 10, pushFront(result, partialSum % 10))
    ELSE IF lhsCur # end
    THEN LET partialSum == deref(L, lhsCur) + carry
         IN  addLoop(L, R, iterPrev(L, lhsCur), rhsCur,
                     partialSum \div 10, pushFront(result, partialSum % 10))
    ELSE IF rhsCur # end
    THEN LET partialSum == deref(R, rhsCur) + carry
         IN  addLoop(L, R, lhsCur, iterPrev(R, rhsCur),
                     partialSum \div 10, pushFront(result, partialSum % 10))
    ELSE IF carry > 0 THEN pushFront(result, carry) ELSE result

\* add(lhs, rhs): sum of the absolute values, isNegative left at its default
add(x, y) ==
    MkInfiniteInt(addLoop(x.digits, y.digits, last(x.digits), last(y.digits), 0,
                          popFront(InfiniteIntDefault.digits)),
                  FALSE)

\* removeLeadingZeroes on a digit queue
RECURSIVE removeLeadingZeroes(_)
removeLeadingZeroes(digits) ==
    IF numEntries(digits) > 1 /\ front(digits) = 0
    THEN removeLeadingZeroes(popFront(digits))
    ELSE digits

\* the two while loops of subtractAbs
RECURSIVE subtractLoop(_, _, _, _, _, _)
subtractLoop(L, R, lhsCur, rhsCur, borrow, result) ==
    IF lhsCur # end /\ rhsCur # end
    THEN LET partialDiff == deref(L, lhsCur) - deref(R, rhsCur) - borrow
         IN  IF partialDiff < 0
             THEN subtractLoop(L, R, iterPrev(L, lhsCur), iterPrev(R, rhsCur), 1,
                               pushFront(result, partialDiff + 10))
             ELSE subtractLoop(L, R, iterPrev(L, lhsCur), iterPrev(R, rhsCur), 0,
                               pushFront(result, partialDiff))
    ELSE IF lhsCur # end
    THEN LET partialDiff == deref(L, lhsCur) - borrow
         IN  IF partialDiff < 0
             THEN subtractLoop(L, R, iterPrev(L, lhsCur), rhsCur, 1,
                               pushFront(result, partialDiff + 10))
             ELSE subtractLoop(L, R, iterPrev(L, lhsCur), rhsCur, 0,
                               pushFront(result, partialDiff))
    ELSE result

\* subtractAbs that returns without removeLeadingZeroes
subtractAbsUnnormalized(x, y) ==
    MkInfiniteInt(
        subtractLoop(x.digits, y.digits, last(x.digits), last(y.digits), 0,
                     popFront(InfiniteIntDefault.digits)),
        FALSE)

\* subtractAbs(lhs, rhs), |lhs| >= |rhs|
subtractAbs(x, y) ==
    MkInfiniteInt(
        removeLeadingZeroes(
            subtractLoop(x.digits, y.digits, last(x.digits), last(y.digits), 0,
                         popFront(InfiniteIntDefault.digits))),
        FALSE)

\* sign fix-up that only looks at a negative lhs of larger magnitude
subtractSignLhsOnly(lhsNegative, largerIsLhs, result) ==
    IF NotEquals(result, InfiniteInt(0)) /\ lhsNegative /\ largerIsLhs
    THEN MkInfiniteInt(result.digits, TRUE)
    ELSE result

\* sign fix-up without the test for a zero result
subtractSignNoZeroTest(lhsNegative, largerIsLhs, result) ==
    IF (lhsNegative /\ largerIsLhs) \/ (~lhsNegative /\ ~largerIsLhs)
    THEN MkInfiniteInt(result.digits, TRUE)
    ELSE result

\* the sign fix-up at the end of subtract
subtractSign(lhsNegative, largerIsLhs, result) ==
    IF NotEquals(result, InfiniteInt(0))
    THEN IF (lhsNegative /\ largerIsLhs) \/ (~lhsNegative /\ ~largerIsLhs)
         THEN MkInfiniteInt(result.digits, TRUE)
         ELSE result
    ELSE result

\* subtract(lhs, rhs)
subtract(x, y) ==
    LET lhsCopy == MkInfiniteInt(x.digits, FALSE)
        rhsCopy == MkInfiniteInt(y.digits, FALSE)
        largerIsLhs == ~Less(lhsCopy, rhsCopy)
        larger == IF largerIsLhs THEN lhsCopy ELSE rhsCopy
        smaller == IF largerIsLhs THEN rhsCopy ELSE lhsCopy
    IN  subtractSign(x.isNegative, largerIsLhs, subtractAbs(larger, smaller))

(***************************************************************************)
(* operator+, operator-, operator*                                         *)
(***************************************************************************)
Plus(x, y) ==
    IF x.isNegative = y.isNegative
    THEN MkInfiniteInt(add(x, y).digits, x.isNegative)
    ELSE subtract(x, y)

Minus(x, y) ==
    IF x.isNegative # y.isNegative
    THEN MkInfiniteInt(add(x, y).digits, x.isNegative)
    ELSE subtract(x, y)

\* inner loop of operator* that loses the final carry of a partial product
RECURSIVE partialLoopNoFinalCarry(_, _, _, _, _)
partialLoopNoFinalCarry(L, lhsCur, rhsDigit, carry, partialDigits) ==
    IF lhsCur # end
    THEN LET digitResult == deref(L, lhsCur) * rhsDigit + carry
         IN  partialLoopNoFinalCarry(L, iterPrev(L, lhsCur), rhsDigit,
                                     digitResult \div 10,
                                     pushFront(partialDigits, digitResult % 10))
    ELSE partialDigits

\* inner loop of operator*: one digit of rhs times every digit of lhs
RECURSIVE partialLoop(_, _, _, _, _)
partialLoop(L, lhsCur, rhsDigit, carry, partialDigits) ==
    IF lhsCur # end
    THEN LET digitResult == deref(L, lhsCur) * rhsDigit + carry
         IN  partialLoop(L, iterPrev(L, lhsCur), rhsDigit, digitResult \div 10,
                         pushFront(partialDigits, digitResult % 10))
    ELSE IF carry > 0 THEN pushFront(partialDigits, carry) ELSE partialDigits

\* for (int i = 0; i < numZeroes; ++i) partialResult.digits.pushBack(0);
RECURSIVE pushZeroes(_, _, _)
pushZeroes(digits, i, numZeroes) ==
    IF i < numZeroes THEN pushZeroes(pushBack(digits, 0), i + 1, numZeroes) ELSE digits

\* outer loop of operator*: over the digits of rhs, lowest first
RECURSIVE timesLoop(_, _, _, _, _)
timesLoop(L, R, rhsCur, numZeroes, result) ==
    IF rhsCur # end
    THEN LET partialResult ==
                 MkInfiniteInt(
                     pushZeroes(partialLoop(L, last(L), deref(R, rhsCur), 0,
                                            popFront(InfiniteIntDefault.digits)),
                                0, numZeroes),
                     FALSE)
         IN  timesLoop(L, R, iterPrev(R, rhsCur), numZeroes + 1,
                       add(result, partialResult))
    ELSE result

\* operator* without the early return for a zero operand
TimesNoZeroCheck(x, y) ==
    MkInfiniteInt(
        timesLoop(x.digits, y.digits, last(y.digits), 0,
                  MkInfiniteInt(popFront(InfiniteInt(0).digits), FALSE)).digits,
        x.isNegative # y.isNegative)

\* operator*
Times(x, y) ==
    LET zero == InfiniteInt(0)
    IN  IF Equals(x, zero) \/ Equals(y, zero)
        THEN zero
        ELSE MkInfiniteInt(
                 timesLoop(x.digits, y.digits, last(y.digits), 0,
                           MkInfiniteInt(popFront(zero.digits), FALSE)).digits,
                 x.isNegative # y.isNegative)

(***************************************************************************)
(* operator int.  A signed overflow of the native accumulator is undefined *)
(* behaviour: the build either wraps modulo 2^32 or traps, so the          *)
(* conversion yields a set of possible outcomes.                           *)
(***************************************************************************)
AddOverflows(a, b) ==
    \/ b > 0 /\ a > INT_MAX - b
    \/ b < 0 /\ a < INT_MIN - b
\* a + b modulo 2^32, computed without leaving the native range
WrapAdd(a, b) ==
    IF b > 0 /\ a > INT_MAX - b THEN ((a - INT_MAX) + (b - INT_MAX)) - 2
    ELSE IF b < 0 /\ a < INT_MIN - b THEN (a - INT_MIN) + (b - INT_MIN)
    ELSE a + b
Mul10Overflows(a) == a > INT_MAX \div 10 \/ a < 0 - (INT_MAX \div 10)
WrapMul10(a) ==
    LET a2 == WrapAdd(a, a)
        a4 == WrapAdd(a2, a2)
        a8 == WrapAdd(a4, a4)
    IN  WrapAdd(a8, a2)
NegOverflows(a) == a = INT_MIN
WrapNeg(a) == IF a = INT_MIN THEN INT_MIN ELSE 0 - a

\* for (currentDigit = begin(); currentDigit != end(); ++currentDigit)
\*    { result *= 10; result += *currentDigit; }
RECURSIVE intLoop(_, _, _, _)
intLoop(digits, currentDigit, result, overflowed) ==
    IF currentDigit # end
    THEN LET shifted == WrapMul10(result)
             d == deref(digits, currentDigit)
         IN  intLoop(digits, iterNext(digits, currentDigit), WrapAdd(shifted, d),
                     overflowed \/ Mul10Overflows(result) \/ AddOverflows(shifted, d))
    ELSE [result |-> result, overflowed |-> overflowed]

RangeError == [kind |-> "range_error", value |-> 0]
OverflowTrap == [kind |-> "overflow_trap", value |-> 0]
Returned(v) == [kind |-> "returned", value |-> v]

\* whether some step of the accumulation in operator int leaves the native range
accumulatorOverflows(x) ==
    LET acc == intLoop(x.digits, begin(x.digits), 0, FALSE)
    IN  acc.overflowed \/ (x.isNegative /\ NegOverflows(acc.result))

\* operator int whose range check only looks at INT_MAX
operatorIntUpperCheckOnly(x) ==
    IF Less(InfiniteInt(INT_MAX), x)
    THEN {RangeError}
    ELSE LET acc == intLoop(x.digits, begin(x.digits), 0, FALSE)
             signed == IF x.isNegative THEN WrapNeg(acc.result) ELSE acc.result
         IN  IF accumulatorOverflows(x)
             THEN {Returned(signed), OverflowTrap}
             ELSE {Returned(signed)}

\* operator int(): the set of outcomes the call can have
operatorInt(x) ==
    IF Less(InfiniteInt(INT_MAX), x) \/ Less(x, InfiniteInt(INT_MIN))
    THEN {RangeError}
    ELSE LET acc == intLoop(x.digits, begin(x.digits), 0, FALSE)
             signed == IF x.isNegative THEN WrapNeg(acc.result) ELSE acc.result
             overflowed == acc.overflowed \/ (x.isNegative /\ NegOverflows(acc.result))
         IN  IF overflowed THEN {Returned(signed), OverflowTrap} ELSE {Returned(signed)}

(***************************************************************************)
(* Character streams.  buf is the character sequence of the stream buffer, *)
(* pos the number of characters already extracted, eofbit/failbit/badbit   *)
(* the stream state, and overwrite tells whether the buffer accepts a      *)
(* putback of a character that differs from the one read at that place     *)
(* (std::stringstream does, std::istringstream does not).                  *)
(***************************************************************************)
EOF == "EOF"
DigitChars == <<"0", "1", "2", "3", "4", "5", "6", "7", "8", "9">>
isdigit(c) == \E d \in 1..10 : DigitChars[d] = c
\* currentChar - '0'
digitValue(c) == (CHOOSE d \in 1..10 : DigitChars[d] = c) - 1
isspace(c) == c = " "

NewStream(text, overwrite) ==
    [buf |-> text, pos |-> 0, eofbit |-> FALSE, failbit |-> FALSE,
     badbit |-> FALSE, overwrite |-> overwrite]
good(s) == ~s.eofbit /\ ~s.failbit /\ ~s.badbit
atEnd(s) == s.pos = Len(s.buf)
\* unread characters of the stream
unread(s) == SubSeq(s.buf, s.pos + 1, Len(s.buf))

\* inStream >> std::ws
RECURSIVE skipws(_)
skipws(s) ==
    IF ~good(s) THEN [s EXCEPT !.failbit = TRUE]
    ELSE IF atEnd(s) THEN [s EXCEPT !.eofbit = TRUE]
    ELSE IF isspace(s.buf[s.pos + 1]) THEN skipws([s EXCEPT !.pos = @ + 1])
    ELSE s

\* inStream.peek(): the value returned and the stream afterwards
peekChar(s) == IF ~good(s) \/ atEnd(s) THEN EOF ELSE s.buf[s.pos + 1]
peekStream(s) ==
    IF ~good(s) THEN [s EXCEPT !.failbit = TRUE]
    ELSE IF atEnd(s) THEN [s EXCEPT !.eofbit = TRUE]
    ELSE s

\* inStream.ignore(1)
ignore1(s) ==
    IF ~good(s) THEN [s EXCEPT !.failbit = TRUE]
    ELSE IF atEnd(s) THEN [s EXCEPT !.eofbit = TRUE]
    ELSE [s EXCEPT !.pos = @ + 1]

\* inStream.get(currentChar): whether a character was extracted, it, and the stream
getOk(s) == good(s) /\ ~atEnd(s)
getChar(s) == s.buf[s.pos + 1]
getStream(s) ==
    IF ~good(s) THEN [s EXCEPT !.failbit = TRUE]
    ELSE IF atEnd(s) THEN [s EXCEPT !.eofbit = TRUE, !.failbit = TRUE]
    ELSE [s EXCEPT !.pos = @ + 1]

\* inStream.putback(c): clears eofbit, does nothing but set failbit on a stream
\* that is not good, otherwise backs up one character
putback(s, c) ==
    LET s1 == [s EXCEPT !.eofbit = FALSE]
    IN  IF ~good(s1) THEN [s1 EXCEPT !.failbit = TRUE]
        ELSE IF s1.pos > 0 /\ s1.buf[s1.pos] = c THEN [s1 EXCEPT !.pos = @ - 1]
        ELSE IF s1.pos > 0 /\ s1.overwrite
             THEN [s1 EXCEPT !.buf = [@ EXCEPT ![s1.pos] = c], !.pos = @ - 1]
        ELSE [s1 EXCEPT !.badbit = TRUE]

(***************************************************************************)
(* operator<< and operator>>                                               *)
(***************************************************************************)
\* outStream << *iter for each digit, highest first
RECURSIVE insertDigits(_, _, _)
insertDigits(out, digits, iter) ==
    IF iter # end
    THEN insertDigits(Append(out, DigitChars[deref(digits, iter) + 1]), digits,
                      iterNext(digits, iter))
    ELSE out

\* operator<<(outStream, IIToPrint): the characters appended to the stream
Insert(s, IIToPrint) ==
    LET signed == IF IIToPrint.isNegative THEN Append(s.buf, "-") ELSE s.buf
    IN  [s EXCEPT !.buf = insertDigits(signed, IIToPrint.digits,
                                       begin(IIToPrint.digits))]

\* leading zeroes left in the stream
discardZeroesSkipped(s) == peekStream(s)

\* while (inStream.peek() == '0') inStream.ignore(1);
RECURSIVE discardZeroes(_)
discardZeroes(s) ==
    IF peekChar(s) = "0" THEN discardZeroes(ignore1(peekStream(s))) ELSE peekStream(s)

\* while (inStream.get(currentChar)) { digit: pushBack; else putback, break }
RECURSIVE readDigits(_, _)
readDigits(s, digits) ==
    IF getOk(s)
    THEN IF isdigit(getChar(s))
         THEN readDigits(getStream(s), pushBack(digits, digitValue(getChar(s))))
         ELSE [stream |-> putback(getStream(s), getChar(s)), digits |-> digits]
    ELSE [stream |-> getStream(s), digits |-> digits]

\* operator>> that keeps the digits the target held before the call
ExtractWithoutClear(inStream, IIToFill) ==
    LET s1 == skipws(inStream)
        minus == peekChar(s1) = "-"
        s2 == IF minus THEN ignore1(peekStream(s1)) ELSE peekStream(s1)
        s3 == discardZeroes(s2)
        rd == readDigits(s3, IIToFill.digits)
    IN  IF numEntries(rd.digits) = 0
        THEN [value |-> MkInfiniteInt(pushBack(rd.digits, 0), FALSE),
              stream |-> IF minus THEN putback(rd.stream, "-") ELSE rd.stream]
        ELSE [value |-> MkInfiniteInt(rd.digits, minus), stream |-> rd.stream]

\* operator>>(inStream, IIToFill): the value read and the stream afterwards
Extract(inStream, IIToFill) ==
    LET cleared == clear(IIToFill.digits)
        s1 == skipws(inStream)
        minus == peekChar(s1) = "-"
        s2 == IF minus THEN ignore1(peekStream(s1)) ELSE peekStream(s1)
        s3 == discardZeroes(s2)
        rd == readDigits(s3, cleared)
    IN  IF numEntries(rd.digits) = 0
        THEN [value |-> MkInfiniteInt(pushBack(rd.digits, 0), FALSE),
              stream |-> IF minus THEN putback(rd.stream, "-") ELSE rd.stream]
        ELSE [value |-> MkInfiniteInt(rd.digits, minus), stream |-> rd.stream]

(***************************************************************************)
(* DEIntQueue as a chain of nodes.  A node is named by a positive number,  *)
(* 0 is the null pointer; nodes maps every allocated node to its data,     *)
(* prev and next.  A call yields the queue afterwards, what it threw and   *)
(* what it returned.                                                       *)
(***************************************************************************)
Null == 0
NoNodes == [n \in {} |-> 0]
NewDEIntQueue == [size |-> 0, head |-> Null, tail |-> Null, nodes |-> NoNodes]
Outcome(q, thrown, value) == [queue |-> q, thrown |-> thrown, value |-> value]
\* new Node
freshNode(q) ==
    CHOOSE n \in 1..(Cardinality(DOMAIN q.nodes) + 1) : n \notin DOMAIN q.nodes
\* delete of node n
freeNode(nodes, n) == [m \in (DOMAIN nodes) \ {n} |-> nodes[m]]

\* pushFront that leaves the old head's prev unset
nodePushFrontNoBackLink(q, newItem) ==
    LET n == freshNode(q)
        linked == [m \in (DOMAIN q.nodes) \cup {n} |->
                      IF m = n THEN [data |-> newItem, prev |-> Null, next |-> q.head]
                      ELSE q.nodes[m]]
    IN  Outcome([size |-> q.size + 1, head |-> n,
                 tail |-> IF q.tail = Null THEN n ELSE q.tail, nodes |-> linked],
                "none", 0)

\* DEIntQueue::pushFront
nodePushFront(q, newItem) ==
    LET n == freshNode(q)
        linked == [m \in (DOMAIN q.nodes) \cup {n} |->
                      IF m = n THEN [data |-> newItem, prev |-> Null, next |-> q.head]
                      ELSE IF m = q.head THEN [q.nodes[m] EXCEPT !.prev = n]
                      ELSE q.nodes[m]]
    IN  Outcome([size |-> q.size + 1, head |-> n,
                 tail |-> IF q.tail = Null THEN n ELSE q.tail, nodes |-> linked],
                "none", 0)

\* DEIntQueue::pushBack
nodePushBack(q, newItem) ==
    LET n == freshNode(q)
        linked == [m \in (DOMAIN q.nodes) \cup {n} |->
                      IF m = n THEN [data |-> newItem, prev |-> q.tail, next |-> Null]
                      ELSE IF m = q.tail THEN [q.nodes[m] EXCEPT !.next = n]
                      ELSE q.nodes[m]]
    IN  Outcome([size |-> q.size + 1, head |-> IF q.head = Null THEN n ELSE q.head,
                 tail |-> n, nodes |-> linked],
                "none", 0)

\* DEIntQueue::front, DEIntQueue::back
nodeFront(q) ==
    IF q.size = 0 THEN Outcome(q, "logic_error", 0)
    ELSE Outcome(q, "none", q.nodes[q.head].data)
nodeBack(q) ==
    IF q.size = 0 THEN Outcome(q, "logic_error", 0)
    ELSE Outcome(q, "none", q.nodes[q.tail].data)

\* DEIntQueue::popFront
nodePopFront(q) ==
    IF q.size = 0 THEN Outcome(q, "logic_error", 0)
    ELSE LET second == q.nodes[q.head].next
             rest == freeNode(q.nodes, q.head)
             unlinked == [m \in DOMAIN rest |->
                             IF m = second THEN [rest[m] EXCEPT !.prev = Null]
                             ELSE rest[m]]
         IN  Outcome([size |-> q.size - 1, head |-> second,
                      tail |-> IF second = Null THEN Null ELSE q.tail,
                      nodes |-> unlinked],
                     "none", 0)

\* the back node unlinked and deleted
unlinkBack(q) ==
    LET secondLast == q.nodes[q.tail].prev
        rest == freeNode(q.nodes, q.tail)
        unlinked == [m \in DOMAIN rest |->
                        IF m = secondLast THEN [rest[m] EXCEPT !.next = Null]
                        ELSE rest[m]]
    IN  [size |-> q.size - 1,
         head |-> IF secondLast = Null THEN Null ELSE q.head,
         tail |-> secondLast, nodes |-> unlinked]

\* popBack that returns quietly from an empty queue
nodePopBackQuiet(q) ==
    IF q.size = 0 THEN Outcome(q, "none", 0)
    ELSE Outcome(unlinkBack(q), "none", 0)

\* DEIntQueue::popBack
nodePopBack(q) ==
    IF q.size = 0 THEN Outcome(q, "logic_error", 0)
    ELSE Outcome(unlinkBack(q), "none", 0)

\* DEIntQueue::numEntries
nodeNumEntries(q) == q.size

\* operator<<(ostream&, const DEIntQueue&): the entries from head to tail
RECURSIVE entriesFrom(_, _)
entriesFrom(q, cur) ==
    IF cur = Null THEN <<>>
    ELSE <<q.nodes[cur].data>> \o entriesFrom(q, q.nodes[cur].next)
entries(q) == entriesFrom(q, q.head)

\* begin(), last(), end(): the node the iterator references
nodeBegin(q) == q.head
nodeLast(q) == q.tail
nodeEnd(q) == Null

\* iterator::operator++, operator--, operator*: value is the new cur (the
\* entry for operator*)
nodeIncrement(q, cur) ==
    IF cur = Null THEN Outcome(q, "out_of_range", cur)
    ELSE Outcome(q, "none", q.nodes[cur].next)
\* operator-- that steps from the end position to the back node
nodeDecrementFromEnd(q, cur) ==
    IF cur = Null THEN Outcome(q, "none", q.tail)
    ELSE Outcome(q, "none", q.nodes[cur].prev)
nodeDecrement(q, cur) ==
    IF cur = Null THEN Outcome(q, "out_of_range", cur)
    ELSE Outcome(q, "none", q.nodes[cur].prev)
nodeDeref(q, cur) ==
    IF cur = Null THEN Outcome(q, "out_of_range", 0)
    ELSE Outcome(q, "none", q.nodes[cur].data)

NoCall == [op |-> "new", thrown |-> "none", value |-> 0, wasEmpty |-> TRUE,
           from |-> Null, pushed |-> FALSE]
\* the queue of a program that does not use DEIntQueue directly
QueueIdle ==
    /\ queue = NewDEIntQueue
    /\ qiter = Null
    /\ refq = <<>>
    /\ qres = NoCall

(***************************************************************************)
(* Inputs of the harnesses.                                                *)
(***************************************************************************)
\* multi-digit operands: zero digits inside, carries across all digits
SpecialInts == {100, 105, 123, 456, 999, 0 - 100, 0 - 123, 0 - 999}
OperandInts == ((0 - MaxOperand)..MaxOperand) \cup SpecialInts
OperandSet == {InfiniteInt(n) : n \in OperandInts}

NativeInts ==
    ((0 - MaxNative)..MaxNative)
        \cup {INT_MAX - k : k \in 0..MaxNative}
        \cup {INT_MIN + k : k \in 0..MaxNative}
        \cup {100, 0 - 100, 12345, 0 - 12345, 999999999, 0 - 999999999,
              1000000000, 0 - 1000000000, 2000000000, 0 - 2000000000}

TextChars == {" ", "-", "0", "7", "x"}
SpecialTexts == {<<" ", " ", "-", "0", "0", "7">>, <<"-", "0", "0", "x", "7">>,
                 <<" ", "-", "7", "0", "0", " ", "7">>}
Texts == UNION {[1..k -> TextChars] : k \in 0..MaxText} \cup SpecialTexts

\* entries pushed on a DEIntQueue
QueueValues == {1, 2}

\* what is added to InfiniteInt(n) before it is converted back
Offsets == {0 - 100, 0 - 2, 0 - 1, 1, 2, 100}

\* what the target of operator>> may hold before the call
TargetSamples == {InfiniteIntDefault, InfiniteInt(0 - 7), InfiniteInt(123)}

\* every value operator>> can deliver for the texts of the model
ExtractedValues ==
    {Extract(NewStream(t, o), x).value :
        t \in Texts, o \in BOOLEAN, x \in TargetSamples}

NoCmp == [lt |-> FALSE, eq |-> FALSE, gt |-> FALSE]
NoConv == [kind |-> "none", value |-> 0]
NoStream == NewStream(<<>>, TRUE)

(***************************************************************************)
(* Spec: a program that builds InfiniteInts and applies the operators to   *)
(* values it built before.  lhs and rhs are two InfiniteInt objects, res   *)
(* the object the last operation produced.                                 *)
(***************************************************************************)
Init ==
    /\ lhs = InfiniteIntDefault
    /\ rhs = InfiniteIntDefault
    /\ res = InfiniteIntDefault
    /\ cmp = NoCmp
    /\ op = "default"
    /\ num = 0
    /\ conv = NoConv
    /\ stream = NoStream
    /\ input = <<>>
    /\ QueueIdle

\* InfiniteInt res;
DefaultConstruct ==
    /\ res' = InfiniteIntDefault
    /\ op' = "default"
    /\ cmp' = NoCmp
    /\ UNCHANGED <<lhs, rhs, num, conv, stream, input>>
    /\ UNCHANGED queueVars

\* InfiniteInt res(n);
Construct ==
    \E n \in OperandInts \cup {INT_MIN, INT_MAX} :
        /\ res' = InfiniteInt(n)
        /\ op' = "ctor"
        /\ cmp' = NoCmp
        /\ UNCHANGED <<lhs, rhs, num, conv, stream, input>>
        /\ UNCHANGED queueVars

\* someStream >> res;  the stream is a temporary of the caller
ExtractValue ==
    \E v \in ExtractedValues :
        /\ res' = v
        /\ op' = "extract"
        /\ cmp' = NoCmp
        /\ UNCHANGED <<lhs, rhs, num, conv, stream, input>>
        /\ UNCHANGED queueVars

\* lhs = res;
AssignLhs ==
    /\ res \in OperandSet
    /\ lhs' = res
    /\ op' = "assign"
    /\ cmp' = NoCmp
    /\ UNCHANGED <<rhs, res, num, conv, stream, input>>
    /\ UNCHANGED queueVars

\* rhs = res;
AssignRhs ==
    /\ res \in OperandSet
    /\ rhs' = res
    /\ op' = "assign"
    /\ cmp' = NoCmp
    /\ UNCHANGED <<lhs, res, num, conv, stream, input>>
    /\ UNCHANGED queueVars

\* res = lhs + rhs;
OpPlus ==
    /\ res' = Plus(lhs, rhs)
    /\ op' = "plus"
    /\ cmp' = NoCmp
    /\ UNCHANGED <<lhs, rhs, num, conv, stream, input>>
    /\ UNCHANGED queueVars

\* res = res - rhs;  right after res = lhs + rhs
OpMinusRhs ==
    /\ op = "plus"
    /\ res' = Minus(res, rhs)
    /\ op' = "plus_minus"
    /\ cmp' = NoCmp
    /\ UNCHANGED <<lhs, rhs, num, conv, stream, input>>
    /\ UNCHANGED queueVars

\* res = lhs - rhs;
OpMinus ==
    /\ res' = Minus(lhs, rhs)
    /\ op' = "minus"
    /\ cmp' = NoCmp
    /\ UNCHANGED <<lhs, rhs, num, conv, stream, input>>
    /\ UNCHANGED queueVars

\* res = lhs * rhs;
OpTimes ==
    /\ res' = Times(lhs, rhs)
    /\ op' = "times"
    /\ cmp' = NoCmp
    /\ UNCHANGED <<lhs, rhs, num, conv, stream, input>>
    /\ UNCHANGED queueVars

\* lhs < rhs, lhs == rhs, rhs < lhs
Compare ==
    /\ cmp' = [lt |-> Less(lhs, rhs), eq |-> Equals(lhs, rhs), gt |-> Less(rhs, lhs)]
    /\ op' = "compare"
    /\ UNCHANGED <<lhs, rhs, res, num, conv, stream, input>>
    /\ UNCHANGED queueVars

Next ==
    \/ DefaultConstruct
    \/ Construct
    \/ ExtractValue
    \/ AssignLhs
    \/ AssignRhs
    \/ OpPlus
    \/ OpMinusRhs
    \/ OpMinus
    \/ OpTimes
    \/ Compare

Spec == Init /\ [][Next]_vars

(***************************************************************************)
(* SpecStream: a stream is filled with a text or with a printed            *)
(* InfiniteInt, and operator>> then reads it into the target res.          *)
(***************************************************************************)
StreamInit ==
    /\ lhs = InfiniteIntDefault
    /\ rhs = InfiniteIntDefault
    /\ res \in TargetSamples
    /\ cmp = NoCmp
    /\ op = "new"
    /\ num = 0
    /\ conv = NoConv
    /\ stream \in {NewStream(<<>>, o) : o \in BOOLEAN}
    /\ input = <<>>
    /\ QueueIdle

\* the stream is given the text t
Supply ==
    /\ op = "new"
    /\ \E t \in Texts :
        /\ stream' = [stream EXCEPT !.buf = t]
        /\ input' = t
    /\ op' = "text"
    /\ UNCHANGED <<lhs, rhs, res, cmp, num, conv>>
    /\ UNCHANGED queueVars

\* stream << InfiniteInt(n);
Write ==
    /\ op = "new"
    /\ \E n \in NativeInts :
        /\ stream' = Insert(stream, InfiniteInt(n))
        /\ input' = Insert(stream, InfiniteInt(n)).buf
        /\ num' = n
    /\ op' = "written"
    /\ UNCHANGED <<lhs, rhs, res, cmp, conv>>
    /\ UNCHANGED queueVars

\* stream >> res;
Read ==
    /\ op \in {"text", "written"}
    /\ LET e == Extract(stream, res)
       IN  /\ res' = e.value
           /\ stream' = e.stream
    /\ op' = IF op = "text" THEN "read_text" ELSE "read_written"
    /\ UNCHANGED <<lhs, rhs, cmp, num, conv, input>>
    /\ UNCHANGED queueVars

StreamNext ==
    \/ Supply
    \/ Write
    \/ Read

SpecStream == StreamInit /\ [][StreamNext]_vars

(***************************************************************************)
(* SpecConv: an InfiniteInt is built from a native int and converted back. *)
(***************************************************************************)
ConvInit ==
    /\ lhs = InfiniteIntDefault
    /\ rhs = InfiniteIntDefault
    /\ res = InfiniteIntDefault
    /\ cmp = NoCmp
    /\ op = "new"
    /\ num = 0
    /\ conv = NoConv
    /\ stream = NoStream
    /\ input = <<>>
    /\ QueueIdle

\* InfiniteInt res(n);  rhs is the offset added to res since, none yet
ConvConstruct ==
    /\ \E n \in NativeInts :
        /\ res' = InfiniteInt(n)
        /\ num' = n
    /\ rhs' = InfiniteIntDefault
    /\ op' = "ctor"
    /\ conv' = NoConv
    /\ UNCHANGED <<lhs, cmp, stream, input>>
    /\ UNCHANGED queueVars

\* rhs = InfiniteInt(d); res = res + rhs;  takes res past INT_MAX or INT_MIN
ConvOffset ==
    /\ op = "ctor"
    /\ \E d \in Offsets :
        /\ rhs' = InfiniteInt(d)
        /\ res' = Plus(res, InfiniteInt(d))
    /\ op' = "offset"
    /\ UNCHANGED <<lhs, cmp, num, conv, stream, input>>
    /\ UNCHANGED queueVars

\* (int) res
Convert ==
    /\ op \in {"ctor", "offset"}
    /\ \E o \in operatorInt(res) : conv' = o
    /\ op' = IF op = "ctor" THEN "converted" ELSE "offset_converted"
    /\ UNCHANGED <<lhs, rhs, res, cmp, num, stream, input>>
    /\ UNCHANGED queueVars

ConvNext ==
    \/ ConvConstruct
    \/ ConvOffset
    \/ Convert

SpecConv == ConvInit /\ [][ConvNext]_vars

(***************************************************************************)
(* SpecQueue: calls on one DEIntQueue and on one iterator of it.  refq is  *)
(* the sequence the same calls produce on a plain double-ended sequence.   *)
(* An entry is not popped while the iterator references it.                *)
(***************************************************************************)
QueueInit ==
    /\ lhs = InfiniteIntDefault
    /\ rhs = InfiniteIntDefault
    /\ res = InfiniteIntDefault
    /\ cmp = NoCmp
    /\ op = "queue"
    /\ num = 0
    /\ conv = NoConv
    /\ stream = NoStream
    /\ input = <<>>
    /\ QueueIdle

Called(name, out, from) ==
    [op |-> name, thrown |-> out.thrown, value |-> out.value,
     wasEmpty |-> (queue.size = 0), from |-> from,
     pushed |-> (qres.pushed \/ name \in {"pushFront", "pushBack"})]
infiniteIntVars == <<lhs, rhs, res, cmp, op, num, conv, stream, input>>

QPushFront ==
    /\ queue.size < MaxQueue
    /\ \E v \in QueueValues :
        LET out == nodePushFront(queue, v)
        IN  /\ queue' = out.queue
            /\ refq' = <<v>> \o refq
            /\ qres' = Called("pushFront", out, Null)
    /\ UNCHANGED <<qiter, infiniteIntVars>>

QPushBack ==
    /\ queue.size < MaxQueue
    /\ \E v \in QueueValues :
        LET out == nodePushBack(queue, v)
        IN  /\ queue' = out.queue
            /\ refq' = Append(refq, v)
            /\ qres' = Called("pushBack", out, Null)
    /\ UNCHANGED <<qiter, infiniteIntVars>>

QFront ==
    /\ qres' = Called("front", nodeFront(queue), Null)
    /\ UNCHANGED <<queue, refq, qiter, infiniteIntVars>>

QBack ==
    /\ qres' = Called("back", nodeBack(queue), Null)
    /\ UNCHANGED <<queue, refq, qiter, infiniteIntVars>>

QPopFront ==
    /\ queue.size = 0 \/ qiter # queue.head
    /\ LET out == nodePopFront(queue)
       IN  /\ queue' = out.queue
           /\ qres' = Called("popFront", out, Null)
    /\ refq' = IF refq = <<>> THEN refq ELSE Tail(refq)
    /\ UNCHANGED <<qiter, infiniteIntVars>>

QPopBack ==
    /\ queue.size = 0 \/ qiter # queue.tail
    /\ LET out == nodePopBack(queue)
       IN  /\ queue' = out.queue
           /\ qres' = Called("popBack", out, Null)
    /\ refq' = IF refq = <<>> THEN refq ELSE SubSeq(refq, 1, Len(refq) - 1)
    /\ UNCHANGED <<qiter, infiniteIntVars>>

\* iter = queue.begin();  iter = queue.last();  iter = queue.end();
ItBegin ==
    /\ qiter' = nodeBegin(queue)
    /\ qres' = Called("begin", Outcome(queue, "none", 0), qiter)
    /\ UNCHANGED <<queue, refq, infiniteIntVars>>
ItLast ==
    /\ qiter' = nodeLast(queue)
    /\ qres' = Called("last", Outcome(queue, "none", 0), qiter)
    /\ UNCHANGED <<queue, refq, infiniteIntVars>>
ItEnd ==
    /\ qiter' = nodeEnd(queue)
    /\ qres' = Called("end", Outcome(queue, "none", 0), qiter)
    /\ UNCHANGED <<queue, refq, infiniteIntVars>>

\* ++iter;  --iter;  *iter;
ItIncrement ==
    /\ LET out == nodeIncrement(queue, qiter)
       IN  /\ qiter' = out.value
           /\ qres' = Called("increment", out, qiter)
    /\ UNCHANGED <<queue, refq, infiniteIntVars>>
ItDecrement ==
    /\ LET out == nodeDecrement(queue, qiter)
       IN  /\ qiter' = out.value
           /\ qres' = Called("decrement", out, qiter)
    /\ UNCHANGED <<queue, refq, infiniteIntVars>>
ItDeref ==
    /\ qres' = Called("deref", nodeDeref(queue, qiter), qiter)
    /\ UNCHANGED <<queue, refq, qiter, infiniteIntVars>>

QueueNext ==
    \/ QPushFront
    \/ QPushBack
    \/ QFront
    \/ QBack
    \/ QPopFront
    \/ QPopBack
    \/ ItBegin
    \/ ItLast
    \/ ItEnd
    \/ ItIncrement
    \/ ItDecrement
    \/ ItDeref

SpecQueue == QueueInit /\ [][QueueNext]_vars

(***************************************************************************)
(* Reference notions used to state the properties: the integer a digit     *)
(* sequence denotes and the decimal digits of a natural number.            *)
(***************************************************************************)
RECURSIVE Magnitude(_)
Magnitude(digits) ==
    IF digits = <<>> THEN 0
    ELSE 10 * Magnitude(SubSeq(digits, 1, Len(digits) - 1)) + digits[Len(digits)]

RECURSIVE Decimal(_)
Decimal(m) == IF m < 10 THEN <<m>> ELSE Append(Decimal(m \div 10), m % 10)

IsZero(x) == x.digits = <<0>>

\* the representation invariant of an InfiniteInt
Normalized(x) ==
    /\ Len(x.digits) >= 1
    /\ \A i \in 1..Len(x.digits) : x.digits[i] \in 0..9
    /\ (x.digits[1] = 0 => Len(x.digits) = 1)
    /\ (IsZero(x) => ~x.isNegative)

\* a text of the shape whitespace*, optional '-', digits+
RECURSIVE DropSpaces(_)
DropSpaces(t) == IF t # <<>> /\ Head(t) = " " THEN DropSpaces(Tail(t)) ELSE t
HasMinus(t) == DropSpaces(t) # <<>> /\ Head(DropSpaces(t)) = "-"
AfterSign(t) == IF HasMinus(t) THEN Tail(DropSpaces(t)) ELSE DropSpaces(t)
IsNumberText(t) ==
    /\ AfterSign(t) # <<>>
    /\ \A i \in 1..Len(AfterSign(t)) : AfterSign(t)[i] \in {"0", "7"}
DigitOf(c) == IF c = "7" THEN 7 ELSE 0
TextMagnitude(t) == Magnitude([i \in 1..Len(AfterSign(t)) |-> DigitOf(AfterSign(t)[i])])
\* position of the leading '-' in the text
MinusIndex(t) == (Len(t) - Len(DropSpaces(t))) + 1
DigitFollowsMinus(t) ==
    /\ Len(AfterSign(t)) >= 1
    /\ AfterSign(t)[1] \in {"0", "7"}
nextUnread(s) == IF atEnd(s) THEN EOF ELSE s.buf[s.pos + 1]
\* the integer an InfiniteInt of at most nine digits denotes
SignedValue(x) ==
    IF x.isNegative THEN 0 - Magnitude(x.digits) ELSE Magnitude(x.digits)

(***************************************************************************)
(* Properties.                                                             *)
(***************************************************************************)
\* C1: for every native int n (0, INT_MAX and INT_MIN included) converting
\* InfiniteInt(n) back with operator int returns exactly n and never fails.
C1_IntRoundTrip == op = "converted" => conv = Returned(num)

\* C2: (a + b) - b == a for all normalized a, b of any signs: same sign flag
\* and the same digit sequence.
C2_PlusMinusRoundTrip == op = "plus_minus" => (Equals(res, lhs) /\ res = lhs)
C2_Witness ==
    /\ op = "plus_minus"
    /\ lhs.isNegative /\ ~rhs.isNegative
    /\ numDigits(lhs) < numDigits(rhs)
    /\ ~IsZero(lhs)

\* C3: a + b == b + a for all normalized a, b: both orders give the same sign
\* flag and the same digits.
C3_PlusCommutes ==
    op = "plus" => (Equals(res, Plus(rhs, lhs)) /\ res = Plus(rhs, lhs))
C3_Witness ==
    /\ op = "plus"
    /\ lhs.isNegative # rhs.isNegative
    /\ lhs.digits = rhs.digits
    /\ numDigits(lhs) > 1

\* C4: a * InfiniteInt(0) is the single digit 0, not negative, and
\* a * InfiniteInt(1) == a, for every normalized a.
C4_TimesZeroOne ==
    op = "times" =>
        /\ (rhs = InfiniteInt(0) =>
                (Equals(res, InfiniteInt(0)) /\ res.digits = <<0>> /\ ~res.isNegative))
        /\ (rhs = InfiniteInt(1) => (Equals(res, lhs) /\ res = lhs))
C4_Witness ==
    /\ op = "times"
    /\ rhs = InfiniteInt(0)
    /\ lhs.isNegative
    /\ numDigits(lhs) > 1

\* C5: a * b has the decimal digits of |a|*|b| and is negative exactly when
\* the operand signs differ and neither operand is zero.
C5_TimesIsProduct ==
    op = "times" =>
        /\ res.digits = Decimal(Magnitude(lhs.digits) * Magnitude(rhs.digits))
        /\ res.isNegative =
               ((lhs.isNegative # rhs.isNegative) /\ ~IsZero(lhs) /\ ~IsZero(rhs))
C5_Witness ==
    /\ op = "times"
    /\ lhs = InfiniteInt(123)
    /\ rhs = InfiniteInt(456)
    /\ res.digits = <<5, 6, 0, 8, 8>>

\* C6: every InfiniteInt the constructors, operator+, operator-, operator* and
\* operator>> produce from values produced the same way has at least one
\* digit, digits in 0..9, no leading zero unless it is the single digit 0,
\* and is not negative when it is zero.
C6_Normalized == Normalized(lhs) /\ Normalized(rhs) /\ Normalized(res)
C6_Witness ==
    /\ op = "minus"
    /\ lhs.isNegative
    /\ rhs.isNegative
    /\ numDigits(lhs) = 3
    /\ numDigits(res) = 1

\* C7: for normalized a, b exactly one of a < b, a == b, b < a holds.
C7_Trichotomy ==
    op = "compare" =>
        /\ (cmp.lt \/ cmp.eq \/ cmp.gt)
        /\ ~(cmp.lt /\ cmp.eq)
        /\ ~(cmp.lt /\ cmp.gt)
        /\ ~(cmp.eq /\ cmp.gt)
C7_Witness ==
    /\ op = "compare"
    /\ lhs.isNegative /\ rhs.isNegative
    /\ numDigits(lhs) > numDigits(rhs)
    /\ cmp.lt

\* C8: printing InfiniteInt(n) with operator<< and reading the text back with
\* operator>> into any target gives a value equal to InfiniteInt(n).
C8_PrintReadRoundTrip ==
    op = "read_written" => (Equals(res, InfiniteInt(num)) /\ res = InfiniteInt(num))
C8_Witness ==
    /\ op = "read_written"
    /\ num = INT_MIN
    /\ res.digits = <<2, 1, 4, 7, 4, 8, 3, 6, 4, 8>>

\* C9: on a text whitespace*, optional '-', digits+ operator>> yields the
\* denoted integer: leading zeros are not stored, the other digits are stored
\* in the order read, and the value is negative iff a '-' precedes a non-zero
\* number.
C9_ReadsDenotedInteger ==
    (op = "read_text" /\ IsNumberText(input)) =>
        /\ res.digits = Decimal(TextMagnitude(input))
        /\ res.isNegative = (HasMinus(input) /\ TextMagnitude(input) # 0)
C9_Witness ==
    /\ op = "read_text"
    /\ input = <<" ", " ", "-", "0", "0", "7">>
    /\ res = InfiniteInt(0 - 7)

\* C10: operator>> consumes a leading '-' if and only if a digit follows it;
\* when none follows, the value read is zero, not negative, and the '-' is the
\* next unread character of the stream.
C10_MinusConsumedIffDigitFollows ==
    (op = "read_text" /\ HasMinus(input)) =>
        IF DigitFollowsMinus(input)
        THEN stream.pos >= MinusIndex(input)
        ELSE /\ res.digits = <<0>>
             /\ ~res.isNegative
             /\ nextUnread(stream) = "-"
             /\ stream.pos = MinusIndex(input) - 1

\* C11: operator int fails with a range error exactly when the value is
\* greater than INT_MAX or less than INT_MIN, and the InfiniteInt keeps its
\* digits and sign whether the conversion fails or not.  The value converted
\* is num + SignedValue(rhs).
C11_RangeErrorIffOutOfRange ==
    op \in {"converted", "offset_converted"} =>
        /\ (conv = RangeError) = AddOverflows(num, SignedValue(rhs))
        /\ (~AddOverflows(num, SignedValue(rhs)) =>
                \/ conv = Returned(num + SignedValue(rhs))
                \/ (num + SignedValue(rhs) = INT_MIN /\ conv = OverflowTrap))
        /\ res = Plus(InfiniteInt(num), rhs)
C11_Witness ==
    /\ op = "offset_converted"
    /\ num = INT_MIN
    /\ rhs = InfiniteInt(0 - 1)
    /\ res.digits = <<2, 1, 4, 7, 4, 8, 3, 6, 4, 9>>
    /\ conv = RangeError

\* C17: for every InfiniteInt whose value is in INT_MIN..INT_MAX, so that the
\* range check passes, no step of the accumulation in operator int (result *= 10,
\* result += digit, result *= -1) leaves INT_MIN..INT_MAX: the conversion never
\* relies on signed overflow, INT_MIN included.
C17_NoSignedOverflow ==
    (op \in {"converted", "offset_converted"} /\ conv # RangeError) =>
        /\ ~accumulatorOverflows(res)
        /\ conv.kind = "returned"

\* the operation went through subtract: a + b with differing signs, a - b with
\* equal signs
BySubtract ==
    \/ op = "plus" /\ lhs.isNegative # rhs.isNegative
    \/ op = "minus" /\ lhs.isNegative = rhs.isNegative
LhsIsLarger == Magnitude(lhs.digits) > Magnitude(rhs.digits)
RhsIsLarger == Magnitude(rhs.digits) > Magnitude(lhs.digits)

\* C15 as stated: whenever subtract produces the result (a + b with differing
\* signs, a - b with equal signs) the result is negative if and only if the
\* operand of larger magnitude was negative, and a zero result is positive.
C15_NegativeIffLargerWasNegative ==
    BySubtract =>
        res.isNegative =
            ((LhsIsLarger /\ lhs.isNegative) \/ (RhsIsLarger /\ rhs.isNegative))

\* C15 amended: for a + b with differing signs the result is negative iff the
\* operand of larger magnitude was negative; for a - b with equal signs it is
\* negative iff a has the larger magnitude and the operands are negative, or b
\* has the larger magnitude and the operands are not negative; a zero result
\* is positive.
C15_SubtractSign ==
    /\ (op = "plus" /\ lhs.isNegative # rhs.isNegative) =>
           res.isNegative =
               ((LhsIsLarger /\ lhs.isNegative) \/ (RhsIsLarger /\ rhs.isNegative))
    /\ (op = "minus" /\ lhs.isNegative = rhs.isNegative) =>
           res.isNegative =
               ((LhsIsLarger /\ lhs.isNegative) \/ (RhsIsLarger /\ ~rhs.isNegative))
    /\ (BySubtract /\ ~LhsIsLarger /\ ~RhsIsLarger) =>
           (res.digits = <<0>> /\ ~res.isNegative)
C15_Witness ==
    /\ op = "minus"
    /\ ~lhs.isNegative /\ ~rhs.isNegative
    /\ RhsIsLarger
    /\ numDigits(rhs) > numDigits(lhs)
    /\ res.isNegative

\* number of digit characters at the start of a text
RECURSIVE DigitRun(_)
DigitRun(t) == IF t # <<>> /\ isdigit(Head(t)) THEN 1 + DigitRun(Tail(t)) ELSE 0
\* number of characters of a text that belong to its leading whitespace and to
\* the number after it; a '-' counts only when a digit follows it
ConsumedLength(t) ==
    (Len(t) - Len(DropSpaces(t)))
        + (IF HasMinus(t)
           THEN IF DigitFollowsMinus(t) THEN 1 + DigitRun(AfterSign(t)) ELSE 0
           ELSE DigitRun(DropSpaces(t)))

\* C16: after operator>> the unread rest of the stream is the suffix of the
\* original input that starts right after the consumed number, and no putback
\* puts a character where a different one was read, also when '-' is followed
\* by zero digits only ("-0", "-00x").  (A '-' that no digit follows is C10.)
C16_UnreadIsSuffixAfterNumber ==
    (op = "read_text" /\ (HasMinus(input) => DigitFollowsMinus(input))) =>
        /\ stream.buf = input
        /\ ~stream.badbit
        /\ stream.pos = ConsumedLength(input)
        /\ unread(stream) = SubSeq(input, ConsumedLength(input) + 1, Len(input))

(***************************************************************************)
(* DEIntQueue                                                              *)
(***************************************************************************)
AccessCalls == {"front", "back", "popFront", "popBack"}

\* C12: front(), back(), popFront() and popBack() on an empty queue, new or
\* emptied by pops after pushes, each fail with a logic error and leave the
\* queue empty (numEntries() == 0).
C12_EmptyAccessFails ==
    (op = "queue" /\ qres.op \in AccessCalls /\ qres.wasEmpty) =>
        /\ qres.thrown = "logic_error"
        /\ nodeNumEntries(queue) = 0
        /\ entries(queue) = <<>>
C12_Witness ==
    /\ op = "queue"
    /\ qres.op = "popBack"
    /\ qres.wasEmpty
    /\ qres.pushed
    /\ qres.thrown = "logic_error"
    /\ nodeNumEntries(queue) = 0

\* the entries from tail to head, by the prev links
RECURSIVE entriesBackFrom(_, _)
entriesBackFrom(q, cur) ==
    IF cur = Null THEN <<>>
    ELSE <<q.nodes[cur].data>> \o entriesBackFrom(q, q.nodes[cur].prev)
Reverse(t) == [i \in 1..Len(t) |-> t[Len(t) + 1 - i]]

\* C13: after any pushFront, pushBack, popFront and popBack on a new queue,
\* numEntries() is the number of entries held, the entries from front to back
\* (and from back to front) are those of the reference sequence, front() and
\* back() return its ends, and head and tail are null exactly when
\* numEntries() is 0.
C13_MatchesReferenceSequence ==
    op = "queue" =>
        /\ nodeNumEntries(queue) = Len(refq)
        /\ Cardinality(DOMAIN queue.nodes) = Len(refq)
        /\ entries(queue) = refq
        /\ entriesBackFrom(queue, queue.tail) = Reverse(refq)
        /\ (queue.head = Null) = (nodeNumEntries(queue) = 0)
        /\ (queue.tail = Null) = (nodeNumEntries(queue) = 0)
        /\ (qres.op = "front" /\ ~qres.wasEmpty) =>
               (qres.thrown = "none" /\ qres.value = Head(refq))
        /\ (qres.op = "back" /\ ~qres.wasEmpty) =>
               (qres.thrown = "none" /\ qres.value = refq[Len(refq)])
C13_Witness ==
    /\ op = "queue"
    /\ refq = <<2, 1>>
    /\ entries(queue) = <<2, 1>>
    /\ nodeNumEntries(queue) = 2
    /\ qres.op = "front"
    /\ qres.value = 2

\* C14 as stated: --iter at end() of a non-empty queue moves to the back node
\* (iter == last()) and does not fail; --iter at the front node gives end().
C14_DecrementAtEndMovesToBack ==
    (op = "queue" /\ qres.op = "decrement") =>
        /\ (qres.from = Null /\ nodeNumEntries(queue) > 0) =>
               (qres.thrown = "none" /\ qiter = nodeLast(queue))
        /\ (qres.from # Null /\ qres.from = nodeBegin(queue)) =>
               (qres.thrown = "none" /\ qiter = nodeEnd(queue))

\* C14 amended: --iter at end() fails with std::out_of_range, on a non-empty
\* queue too; --iter at the front node gives end().
C14_DecrementAtEndFails ==
    (op = "queue" /\ qres.op = "decrement") =>
        /\ qres.from = Null => qres.thrown = "out_of_range"
        /\ (qres.from # Null /\ qres.from = nodeBegin(queue)) =>
               (qres.thrown = "none" /\ qiter = nodeEnd(queue))
C14_Witness ==
    /\ op = "queue"
    /\ qres.op = "decrement"
    /\ qres.from = Null
    /\ nodeNumEntries(queue) > 0
    /\ qres.thrown = "out_of_range"

====
